---- MODULE Spec2Model ----
(***************************************************************************)
(* Cyberpunk Task Board (src/python-tk/cyberpunk_tasks.py).                *)
(*                                                                         *)
(* The board is two Python lists of TaskCard objects, app.tasks and        *)
(* app.completed, a JSON file beside the program, and the handlers Tk     *)
(* calls one at a time from its event loop.  A card is its object          *)
(* identity (a number handed out at construction), its text, its          *)
(* _drag_index and whether its widget has been destroyed.                  *)
(*                                                                         *)
(* A text is a sequence of pieces.  A piece is one of the characters       *)
(* " ", "\t", "\"", "\\", or a run of other characters with no white      *)
(* space at either end ("Buy milk").  str.strip and the JSON string        *)
(* encoding act on the pieces the way they act on the characters.          *)
(***************************************************************************)
EXTENDS Integers, Sequences, FiniteSets, TLC

(***************************************************************************)
(* Bounds of the model.                                                    *)
(***************************************************************************)
\* Handlers run after the first instance is constructed.
MaxSteps == 3
\* winfo_height() of a card's shadow frame, in pixels (the window system's).
CardHeight == 4

(***************************************************************************)
(* Program constants.                                                      *)
(***************************************************************************)
CARD_PADY == 8

\* The four tasks __init__ seeds when load_state reports no prior state.
DefaultTasks ==
    << <<"Patch proxies to 12.2.18">>,
       <<"Prepare AI Steering Committee slides">>,
       <<"Finish CrowdStrike DFD">>,
       <<"Schedule PCI policy review">> >>

\* Python's None where an index is expected (_drag_index).
None == -1
\* No card: the pointer button is up, or an operation made no card.
NoCard == 0

(***************************************************************************)
(* Sequences.                                                              *)
(***************************************************************************)
Range(s) == { s[i] : i \in 1..Len(s) }

\* list.index(x), 0-based; None when x is not in the list (ValueError).
IndexOf(s, x) ==
    IF \E i \in 1..Len(s) : s[i] = x
    THEN (CHOOSE i \in 1..Len(s) : s[i] = x /\ \A j \in 1..(i-1) : s[j] # x) - 1
    ELSE None

\* list.remove(x): the list without the first occurrence of x.
ListRemove(s, x) ==
    LET i == IndexOf(s, x) + 1
    IN  IF i = 0 THEN s
        ELSE [k \in 1..(Len(s)-1) |-> IF k < i THEN s[k] ELSE s[k+1]]

\* list.pop(i) leaves this list behind (i 0-based and in range).
ListWithout(s, i) ==
    [k \in 1..(Len(s)-1) |-> IF k < i + 1 THEN s[k] ELSE s[k+1]]

\* list.insert(i, x) for 0 <= i: an i past the end appends.
ListInsert(s, i, x) ==
    LET at == IF i > Len(s) THEN Len(s) ELSE i
    IN  [k \in 1..(Len(s)+1) |->
            IF k < at + 1 THEN s[k] ELSE IF k = at + 1 THEN x ELSE s[k-1]]

(***************************************************************************)
(* Texts: str.strip, truthiness, and the JSON string encoding.             *)
(***************************************************************************)
IsSpace(p) == p \in {" ", "\t"}

RECURSIVE LStrip(_)
LStrip(t) ==
    IF t # <<>> /\ IsSpace(Head(t)) THEN LStrip(Tail(t)) ELSE t

RECURSIVE RStrip(_)
RStrip(t) ==
    IF t # <<>> /\ IsSpace(t[Len(t)]) THEN RStrip(SubSeq(t, 1, Len(t)-1)) ELSE t

\* str.strip()
Strip(t) == RStrip(LStrip(t))

\* What a dialog hands back: None on Cancel, else the string typed.
Cancelled == [cancel |-> TRUE, text |-> <<>>]
Typed(t) == [cancel |-> FALSE, text |-> t]

\* `if text:` -- None and "" are falsy, every other string is truthy.
Truthy(r) == ~r.cancel /\ r.text # <<>>

\* The encoding with nothing escaped.
EncodeBody_NoEscape(t) == t

\* json.dump of one string: quotes around it, a backslash before each quote
\* and backslash, \t for a tab.
RECURSIVE EncodeBody(_)
EncodeBody(t) ==
    IF t = <<>> THEN <<>>
    ELSE LET p == Head(t)
         IN  (CASE p = "\"" -> <<"\\", "\"">>
                [] p = "\\" -> <<"\\", "\\">>
                [] p = "\t" -> <<"\\", "t">>
                [] OTHER    -> <<p>>) \o EncodeBody(Tail(t))

EncodeString(t) == <<"\"">> \o EncodeBody(t) \o <<"\"">>

\* json.load of one string literal's inside: a backslash takes the piece
\* after it (t for a tab, else that character).
RECURSIVE DecodeBody(_)
DecodeBody(e) ==
    IF e = <<>> THEN <<>>
    ELSE IF Head(e) = "\\" /\ Len(e) >= 2
         THEN <<(IF e[2] = "t" THEN "\t" ELSE e[2])>> \o DecodeBody(Tail(Tail(e)))
         ELSE <<Head(e)>> \o DecodeBody(Tail(e))

DecodeString(lit) == DecodeBody(SubSeq(lit, 2, Len(lit) - 1))

(***************************************************************************)
(* The data file tasks.json.  Its outer structure is kept as a record and  *)
(* every string in it as the literal json.dump writes.                     *)
(***************************************************************************)
JsonArray(items) == [type |-> "array", items |-> items]
\* A JSON value that `for text in ...` cannot iterate (a number, null).
JsonNumber == [type |-> "number", items |-> <<>>]

\* data_file.exists() is false.
MissingFile == [kind |-> "missing", tasks |-> JsonNumber, completed |-> JsonNumber]
\* Not JSON: json.load raises (a truncated write, an edited file).
GarbageFile == [kind |-> "garbage", tasks |-> JsonNumber, completed |-> JsonNumber]
\* Valid JSON whose top level is a list: data.get raises AttributeError.
ListFile == [kind |-> "list", tasks |-> JsonNumber, completed |-> JsonNumber]
ObjectFile(t, c) == [kind |-> "object", tasks |-> t, completed |-> c]

EncodeAll(texts) == [i \in 1..Len(texts) |-> EncodeString(texts[i])]
DecodeAll(lits) == [i \in 1..Len(lits) |-> DecodeString(lits[i])]

(***************************************************************************)
(* The board of one running instance, as a record the handlers transform.  *)
(***************************************************************************)
VARIABLES
    tasks,       \* app.tasks: the active cards, in order
    completed,   \* app.completed: the completed cards, in order
    text,        \* card.text of every card constructed so far, by identity
    drag_index,  \* card._drag_index of every card constructed so far
    destroyed,   \* the cards whose widget (card.shadow) has been destroyed
    pressed,     \* the card whose drag widgets hold pointer button 1, or NoCard
    file,        \* the contents of tasks.json
    running,     \* an instance's main loop is running
    disk,        \* the disk the instance runs on: writable, read_only or full
    steps,       \* handlers run since the first instance was constructed
    last         \* the handler that ran last, its inputs and the board before it

vars == <<tasks, completed, text, drag_index, destroyed, pressed, file,
          running, disk, steps, last>>

Board == [tasks |-> tasks, completed |-> completed, text |-> text,
          drag_index |-> drag_index, destroyed |-> destroyed]

EmptyBoard(b) == [b EXCEPT !.tasks = <<>>, !.completed = <<>>]

TextsOf(b, cards) == [i \in 1..Len(cards) |-> b.text[cards[i]]]

\* TaskCard.__init__: a new object, the next identity, _drag_index None.
NewCard(b) == Len(b.text) + 1

Constructed(b, t) ==
    [b EXCEPT !.text = Append(b.text, t), !.drag_index = Append(b.drag_index, None)]

\* save_state's data: the texts of both lists, in order.
Snapshot(b) ==
    ObjectFile(JsonArray(EncodeAll(TextsOf(b, b.tasks))),
               JsonArray(EncodeAll(TextsOf(b, b.completed))))

\* A handler's result: the board it leaves, and whether it called save_state.
Result(b, saved) == [board |-> b, save |-> saved]

add_task(b, t, save) ==
    LET card == NewCard(b)
        b1 == Constructed(b, t)
    IN  Result([b1 EXCEPT !.tasks = Append(b1.tasks, card)], save)

add_completed_task(b, t, save) ==
    LET card == NewCard(b)
        b1 == Constructed(b, t)
    IN  Result([b1 EXCEPT !.completed = Append(b1.completed, card)], save)

add_task_dialog(b, answer) ==
    IF Truthy(answer) THEN add_task(b, Strip(answer.text), TRUE)
    ELSE Result(b, FALSE)

(***************************************************************************)
(* TaskCard's handlers.                                                    *)
(***************************************************************************)
on_drag_start(b, c) ==
    Result([b EXCEPT !.drag_index[c] = IndexOf(b.tasks, c)], FALSE)

\* card.shadow.winfo_y() of the card at 0-based position i: the cards are
\* packed top to bottom with pady=CARD_PADY above and below each.
WinfoY(i) == CARD_PADY + i * (CardHeight + 2 * CARD_PADY)

\* card.shadow.winfo_height() or 1
WinfoHeight == IF CardHeight = 0 THEN 1 ELSE CardHeight

\* pointer_y < y + h / 2 at position i, without the fraction.
AboveCenter(pointer_y, i) == 2 * pointer_y < 2 * WinfoY(i) + WinfoHeight

\* The for/else of on_drag_motion: the first position whose centre is below
\* the pointer, else len(cards) - 1.
TargetIndex(cards, pointer_y) ==
    IF \E i \in 0..(Len(cards)-1) : AboveCenter(pointer_y, i)
    THEN CHOOSE i \in 0..(Len(cards)-1) :
            /\ AboveCenter(pointer_y, i)
            /\ \A j \in 0..(i-1) : ~AboveCenter(pointer_y, j)
    ELSE Len(cards) - 1

\* The reorder with the pop left out: the card is inserted a second time.
Reordered_NoPop(cards, i, target) ==
    IF i >= Len(cards) THEN cards
    ELSE ListInsert(cards, target, cards[i + 1])

\* cards.pop(i); cards.insert(target, card); a pop past the end raises
\* IndexError, which ends the handler with the list as it was.
Reordered(cards, i, target) ==
    IF i >= Len(cards) THEN cards
    ELSE ListInsert(ListWithout(cards, i), target, cards[i + 1])

on_drag_motion(b, c, pointer_y) ==
    IF b.drag_index[c] = None THEN Result(b, FALSE)
    ELSE LET cards == b.tasks
             target_index == TargetIndex(cards, pointer_y)
         IN  IF target_index # b.drag_index[c] /\ b.drag_index[c] < Len(cards)
             THEN Result([b EXCEPT
                            !.tasks = Reordered(cards, b.drag_index[c], target_index),
                            !.drag_index[c] = target_index], FALSE)
             ELSE Result(b, FALSE)

\* on_drag_release without its save_state call.
on_drag_release_NoSave(b, c) ==
    Result([b EXCEPT !.drag_index[c] = None], FALSE)

on_drag_release(b, c) ==
    Result([b EXCEPT !.drag_index[c] = None], TRUE)

complete(b, c, save) ==
    LET b1 == add_completed_task(b, b.text[c], FALSE).board
        b2 == IF c \in Range(b1.tasks)
              THEN [b1 EXCEPT !.tasks = ListRemove(b1.tasks, c)] ELSE b1
    IN  Result([b2 EXCEPT !.destroyed = b2.destroyed \cup {c}], save)

\* delete with list.pop() in the place of list.remove(self).
delete_Pop(b, c) ==
    LET b1 == IF c \in Range(b.tasks)
              THEN [b EXCEPT !.tasks = SubSeq(b.tasks, 1, Len(b.tasks) - 1)]
              ELSE IF c \in Range(b.completed)
                   THEN [b EXCEPT !.completed = SubSeq(b.completed, 1, Len(b.completed) - 1)]
                   ELSE b
    IN  Result([b1 EXCEPT !.destroyed = b1.destroyed \cup {c}], TRUE)

delete(b, c) ==
    LET b1 == IF c \in Range(b.tasks)
              THEN [b EXCEPT !.tasks = ListRemove(b.tasks, c)]
              ELSE IF c \in Range(b.completed)
                   THEN [b EXCEPT !.completed = ListRemove(b.completed, c)]
                   ELSE b
    IN  Result([b1 EXCEPT !.destroyed = b1.destroyed \cup {c}], TRUE)

edit(b, c, answer) ==
    IF Truthy(answer)
    THEN Result([b EXCEPT !.text[c] = Strip(answer.text)], TRUE)
    ELSE Result(b, FALSE)

\* restore without completed.remove(self).
restore_KeepsCompleted(b, c, save) ==
    LET b2 == [b EXCEPT !.destroyed = b.destroyed \cup {c}]
    IN  Result(add_task(b2, b2.text[c], FALSE).board, save)

restore(b, c, save) ==
    LET b1 == IF c \in Range(b.completed)
              THEN [b EXCEPT !.completed = ListRemove(b.completed, c)] ELSE b
        b2 == [b1 EXCEPT !.destroyed = b1.destroyed \cup {c}]
    IN  Result(add_task(b2, b2.text[c], FALSE).board, save)

(***************************************************************************)
(* Persistence.                                                            *)
(***************************************************************************)
\* The disk an instance runs on, and how a save_state call ends on it: the
\* file written; open() raising, the file as it was (a read-only file or
\* directory); or the write raising after open() truncated the file (a full
\* disk).
DiskModes == {"writable", "read_only", "full"}

Outcome(d) ==
    CASE d = "writable"  -> "ok"
      [] d = "read_only" -> "open_failed"
      [] d = "full"      -> "write_failed"

save_state(b, outcome, old) ==
    CASE outcome = "ok"           -> Snapshot(b)
      [] outcome = "open_failed"  -> old
      [] outcome = "write_failed" -> GarbageFile

\* load_state on a board with empty lists: its return value, and the board
\* with the cards it added before it returned.
RECURSIVE AddAll(_, _, _)
AddAll(b, texts, active) ==
    IF texts = <<>> THEN b
    ELSE AddAll((IF active THEN add_task(b, Head(texts), FALSE)
                 ELSE add_completed_task(b, Head(texts), FALSE)).board,
                Tail(texts), active)

load_state(b, f) ==
    IF f.kind = "missing" THEN [ok |-> FALSE, board |-> b]
    ELSE IF f.kind # "object" \/ f.tasks.type # "array"
         THEN [ok |-> FALSE, board |-> b]
         ELSE LET b1 == AddAll(b, DecodeAll(f.tasks.items), TRUE)
              IN  IF f.completed.type # "array"
                  THEN [ok |-> FALSE, board |-> b1]
                  ELSE [ok |-> TRUE,
                        board |-> AddAll(b1, DecodeAll(f.completed.items), FALSE)]

\* TaskBoardApp.__init__ from "Data and persistence" on: empty lists,
\* load_state, and the defaults and a save when it reports False.
Init_app(b, f) ==
    LET loaded == load_state(EmptyBoard(b), f)
    IN  IF loaded.ok THEN Result(loaded.board, FALSE)
        ELSE Result(AddAll(loaded.board, DefaultTasks, TRUE), TRUE)

\* root.destroy() after on_close's save: every widget goes.
on_close(b) ==
    Result([b EXCEPT !.destroyed = 1..Len(b.text)], TRUE)

(***************************************************************************)
(* Inputs.                                                                 *)
(***************************************************************************)
\* What the user may answer in an askstring dialog.
Answers ==
    { Cancelled,
      Typed(<<>>),
      Typed(<<" ", "\t">>),
      Typed(<<"\t", "a", "\t", "\"", "\\", "t", " ">>) }

\* tasks.json as the first instance may find it.
InitFiles ==
    { MissingFile,
      GarbageFile,
      ListFile,
      \* {"tasks": 5, "completed": ["x"]}
      ObjectFile(JsonNumber, JsonArray(<< <<"\"", "x", "\"">> >>)),
      \* {"tasks": ["x"], "completed": 5}
      ObjectFile(JsonArray(<< <<"\"", "x", "\"">> >>), JsonNumber),
      \* {"tasks": [], "completed": []}
      ObjectFile(JsonArray(<<>>), JsonArray(<<>>)),
      \* {"tasks": ["x", "\\t"], "completed": ["y\""]}
      ObjectFile(JsonArray(<< <<"\"", "x", "\"">>, <<"\"", "\\", "\\", "t", "\"">> >>),
                 JsonArray(<< <<"\"", "y", "\\", "\"", "\"">> >>)) }

\* Pointer positions, relative to the container, around the centre of each
\* of n cards, and above the container.
PointerYs(n) ==
    {-1} \cup { WinfoY(i) + (WinfoHeight \div 2) + d : i \in 0..(n-1), d \in {-1, 0, 1} }

(***************************************************************************)
(* What is recorded of the handler that ran last: its name, card and       *)
(* inputs, how its save_state call ended, whether it changed app.tasks;    *)
(* the board before it for complete and __init__; the file      *)
(* __init__ read; and for a restore of the card the last complete made, or *)
(* an __init__ right after on_close, that earlier handler.                 *)
(***************************************************************************)
NoBoard == [tasks |-> <<>>, completed |-> <<>>, text |-> <<>>,
            drag_index |-> <<>>, destroyed |-> {}]

NoPrior == [op |-> "none", card |-> NoCard, saved |-> "none", pre |-> NoBoard]

PriorOf(l) == [op |-> l.op, card |-> l.card, saved |-> l.saved, pre |-> l.pre]

Note(op, card, answer, pointer_y) ==
    [op |-> op, card |-> card, answer |-> answer, pointer_y |-> pointer_y,
     saved |-> "none", moved |-> FALSE,
     pre |-> NoBoard, pre_file |-> MissingFile, prior |-> NoPrior]

\* The card a handler constructed first, given the board before it.
Made(b) == Len(b.text) + 1

Failed(o) == o \in {"open_failed", "write_failed"}

(***************************************************************************)
(* The state machine.  Tk runs one handler at a time, each to its end.     *)
(* The card buttons and the add button take the keyboard focus, so they    *)
(* can be invoked while pointer button 1 is held on a card: every handler  *)
(* may run between on_drag_start and on_drag_release.  A destroyed widget  *)
(* receives no events.                                                     *)
(***************************************************************************)
Apply(b) ==
    /\ tasks' = b.tasks
    /\ completed' = b.completed
    /\ text' = b.text
    /\ drag_index' = b.drag_index
    /\ destroyed' = b.destroyed

\* One handler runs to its end on disk d: its result takes effect, and its
\* save_state call, if it made one, ends as the disk has it.
Commit(res, note, d) ==
    /\ steps < MaxSteps
    /\ steps' = steps + 1
    /\ Apply(res.board)
    /\ disk' = d
    /\ LET o == IF res.save THEN Outcome(d) ELSE "none"
       IN  /\ file' = (IF res.save THEN save_state(res.board, o, file) ELSE file)
           /\ last' = [note EXCEPT !.saved = o,
                                   !.moved = (res.board.tasks # tasks)]

Init ==
    \E f \in InitFiles, d \in DiskModes :
        LET res == Init_app(NoBoard, f)
            out == IF res.save THEN Outcome(d) ELSE "none"
        IN  /\ tasks = res.board.tasks
            /\ completed = res.board.completed
            /\ text = res.board.text
            /\ drag_index = res.board.drag_index
            /\ destroyed = res.board.destroyed
            /\ pressed = NoCard
            /\ file = (IF res.save THEN save_state(res.board, out, f) ELSE f)
            /\ running = TRUE
            /\ disk = d
            /\ steps = 0
            /\ last = [Note("init", NoCard, Cancelled, 0)
                         EXCEPT !.saved = out, !.pre_file = f]

Alive == Range(tasks) \cup Range(completed)

AddTaskDialog ==
    /\ running
    /\ \E a \in Answers :
          Commit(add_task_dialog(Board, a), Note("add_task_dialog", NoCard, a, 0), disk)
    /\ UNCHANGED <<pressed, running>>

Edit ==
    /\ running
    /\ \E c \in Alive, a \in Answers :
          Commit(edit(Board, c, a), Note("edit", c, a, 0), disk)
    /\ UNCHANGED <<pressed, running>>

Complete ==
    /\ running
    /\ \E c \in Range(tasks) :
          Commit(complete(Board, c, TRUE),
                 [Note("complete", c, Cancelled, 0) EXCEPT !.pre = Board], disk)
    /\ UNCHANGED <<pressed, running>>

Restore ==
    /\ running
    /\ \E c \in Range(completed) :
          Commit(restore(Board, c, TRUE),
                 [Note("restore", c, Cancelled, 0) EXCEPT
                     !.prior = IF last.op = "complete" /\ Made(last.pre) = c
                               THEN PriorOf(last) ELSE NoPrior], disk)
    /\ UNCHANGED <<pressed, running>>

Delete ==
    /\ running
    /\ \E c \in Alive :
          Commit(delete(Board, c), Note("delete", c, Cancelled, 0), disk)
    /\ UNCHANGED <<pressed, running>>

\* delete called on a card that is already gone from the board.
DeleteRemoved ==
    /\ running
    /\ \E c \in destroyed :
          Commit(delete(Board, c), Note("delete_removed", c, Cancelled, 0), disk)
    /\ UNCHANGED <<pressed, running>>

\* <Button-1> on a drag widget of an active card.
DragStart ==
    /\ running
    /\ pressed = NoCard
    /\ \E c \in Range(tasks) :
          /\ pressed' = c
          /\ Commit(on_drag_start(Board, c), Note("on_drag_start", c, Cancelled, 0), disk)
    /\ UNCHANGED running

\* <B1-Motion>, delivered while the widget that took the press exists.
DragMotion ==
    /\ running
    /\ pressed # NoCard
    /\ pressed \notin destroyed
    /\ \E y \in PointerYs(Len(tasks)) :
          Commit(on_drag_motion(Board, pressed, y),
                 Note("on_drag_motion", pressed, Cancelled, y), disk)
    /\ UNCHANGED <<pressed, running>>

\* <ButtonRelease-1>: the handler runs if the widget still exists.
DragRelease ==
    /\ running
    /\ pressed # NoCard
    /\ pressed' = NoCard
    /\ IF pressed \notin destroyed
       THEN Commit(on_drag_release(Board, pressed),
                   Note("on_drag_release", pressed, Cancelled, 0), disk)
       ELSE Commit(Result(Board, FALSE),
                   Note("release_unhandled", pressed, Cancelled, 0), disk)
    /\ UNCHANGED running

Close ==
    /\ running
    /\ running' = FALSE
    /\ pressed' = NoCard
    /\ Commit(on_close(Board), Note("on_close", NoCard, Cancelled, 0), disk)

\* The program is started again: a fresh TaskBoardApp reads the file.
Launch ==
    /\ ~running
    /\ \E d \in DiskModes :
          Commit(Init_app(Board, file),
                 [Note("init", NoCard, Cancelled, 0) EXCEPT
                     !.pre = Board,
                     !.pre_file = file,
                     !.prior = IF last.op = "on_close" THEN PriorOf(last) ELSE NoPrior],
                 d)
    /\ running' = TRUE
    /\ UNCHANGED pressed

Next ==
    \/ AddTaskDialog
    \/ Edit
    \/ Complete
    \/ Restore
    \/ Delete
    \/ DeleteRemoved
    \/ DragStart
    \/ DragMotion
    \/ DragRelease
    \/ Close
    \/ Launch

Spec == Init /\ [][Next]_vars

(***************************************************************************)
(* Vocabulary of the properties.                                           *)
(***************************************************************************)
\* The list without card c, said without list.remove.
Without(cards, c) == SelectSeq(cards, LAMBDA x : x # c)

\* The dialog's answer is Cancel, empty, or white space only.
Blank(answer) == answer.cancel \/ \A i \in 1..Len(answer.text) : IsSpace(answer.text[i])

InitFailedToLoad(f) ==
    \/ f.kind # "object"
    \/ f.tasks.type # "array"
    \/ f.completed.type # "array"

(***************************************************************************)
(* C1.  Every card occurs at most once in app.tasks and app.completed      *)
(* taken together (never in both, never twice in one), whatever handlers   *)
(* have run; and while the instance runs, a card whose widget has not been *)
(* destroyed (it was neither deleted nor replaced by complete or restore)  *)
(* is in one of the two lists.                                             *)
(***************************************************************************)
C1_EachCardInAtMostOneList ==
    LET all == tasks \o completed
    IN  /\ \A i, j \in 1..Len(all) : all[i] = all[j] => i = j
        /\ running => \A c \in 1..Len(text) : c \notin destroyed => c \in Range(all)

\* A restore, or a drag-motion step that reordered app.tasks, has run on a
\* board with cards in both lists, after a card was destroyed.
C1_Witness ==
    /\ last.op \in {"restore", "on_drag_motion"}
    /\ (last.op = "on_drag_motion" => last.moved)
    /\ destroyed # {}
    /\ tasks # <<>>
    /\ completed # <<>>

(***************************************************************************)
(* C2.  Start-up from a missing file, or from a file that cannot be read   *)
(* as {"tasks": [...], "completed": [...]} (a file whose "tasks" is a list *)
(* but whose "completed" cannot be iterated included), leaves exactly the  *)
(* four default tasks in app.tasks, in their order, and app.completed      *)
(* empty.                                                                  *)
(***************************************************************************)
C2_CorruptStartGivesDefaults ==
    (last.op = "init" /\ InitFailedToLoad(last.pre_file)) =>
        /\ TextsOf(Board, tasks) = DefaultTasks
        /\ completed = <<>>

(***************************************************************************)
(* C3.  When on_close's save_state wrote the file and a fresh instance     *)
(* then loads it, load_state reports success (no defaults, no save) and    *)
(* the fresh instance's lists carry the same texts in the same order as    *)
(* the lists that were saved, on cards that are none of the saved ones.    *)
(***************************************************************************)
C3_SaveThenLoadRoundTrip ==
    (last.op = "init" /\ last.prior.op = "on_close" /\ last.prior.saved = "ok") =>
        /\ last.saved = "none"
        /\ TextsOf(Board, tasks) = TextsOf(last.pre, last.pre.tasks)
        /\ TextsOf(Board, completed) = TextsOf(last.pre, last.pre.completed)
        /\ Alive \cap (Range(last.pre.tasks) \cup Range(last.pre.completed)) = {}

\* A round trip of a board with cards in both lists and a text with a
\* backslash in it.
C3_Witness ==
    /\ last.op = "init" /\ last.prior.op = "on_close" /\ last.prior.saved = "ok"
    /\ last.pre.completed # <<>>
    /\ \E i \in 1..Len(last.pre.tasks) :
          "\\" \in Range(last.pre.text[last.pre.tasks[i]])

(***************************************************************************)
(* C4.  The add dialog: when the answer is Cancel, empty or white space    *)
(* only, neither list changes and no card is made; otherwise one new card  *)
(* with the trimmed text is appended to app.tasks and the state is saved.  *)
(***************************************************************************)
C4_AddRejectsBlank ==
    [][last'.op = "add_task_dialog" =>
        IF Blank(last'.answer)
        THEN /\ tasks' = tasks
             /\ completed' = completed
             /\ text' = text
        ELSE /\ text' = Append(text, Strip(last'.answer.text))
             /\ tasks' = Append(tasks, Len(text'))
             /\ completed' = completed
             /\ last'.saved # "none"
    ]_vars

(***************************************************************************)
(* C5.  edit with an answer that is Cancel, empty or white space only      *)
(* leaves the card's text and both lists as they were; with any other      *)
(* answer the card's text becomes the trimmed answer, the lists stay as    *)
(* they were, and the state is saved.                                      *)
(***************************************************************************)
C5_EditIgnoresBlank ==
    [][last'.op = "edit" =>
        /\ tasks' = tasks
        /\ completed' = completed
        /\ IF Blank(last'.answer)
           THEN text' = text
           ELSE /\ text' = [text EXCEPT ![last'.card] = Strip(last'.answer.text)]
                /\ last'.saved # "none"
    ]_vars

(***************************************************************************)
(* C6.  complete of a card r of app.tasks followed by restore of the card  *)
(* it made: app.tasks is the original list without r followed by one new   *)
(* card with r's text, last; app.completed is the original list.           *)
(***************************************************************************)
C6_CompleteThenRestore ==
    (last.op = "restore" /\ last.prior.op = "complete") =>
        LET b0 == last.prior.pre
            r == last.prior.card
            n == Len(tasks)
        IN  /\ n = Len(b0.tasks)
            /\ SubSeq(tasks, 1, n - 1) = Without(b0.tasks, r)
            /\ tasks[n] \notin Range(b0.tasks) \cup Range(b0.completed)
            /\ text[tasks[n]] = b0.text[r]
            /\ completed = b0.completed
            /\ TextsOf(Board, completed) = TextsOf(b0, b0.completed)

\* The card completed was not the last of app.tasks, and app.completed was
\* not empty.
C6_Witness ==
    /\ last.op = "restore" /\ last.prior.op = "complete"
    /\ IndexOf(last.prior.pre.tasks, last.prior.card) < Len(last.prior.pre.tasks) - 1
    /\ last.prior.pre.completed # <<>>

(***************************************************************************)
(* C7.  As claimed: after each add, complete, restore, effective edit,     *)
(* delete and each drag-motion step that changes app.tasks, and before any *)
(* further event is handled, the file (unless the write failed) holds the  *)
(* texts and order of both lists as they are in memory.                    *)
(***************************************************************************)
Mutated ==
    \/ last.op \in {"complete", "restore", "delete"}
    \/ last.op \in {"add_task_dialog", "edit"} /\ Truthy(last.answer)

C8_DragMovesCardToTarget ==
    last.op = "on_drag_motion" =>
        LET n == Len(tasks)
            y == last.pointer_y
            at == IndexOf(tasks, last.card)
        IN  /\ (\A i \in 0..(n-1) : AboveCenter(y, i)) => at = 0
            /\ (\A i \in 0..(n-1) : ~AboveCenter(y, i)) => at = n - 1
            /\ \A i \in 0..(n-1) :
                  (AboveCenter(y, i) /\ \A j \in 0..(i-1) : ~AboveCenter(y, j)) => at = i
            /\ n = 1 => ~last.moved

(***************************************************************************)
(* C9.  delete takes the card out of the list that holds it and leaves     *)
(* every other card, the order of both lists and every text as they were;  *)
(* delete of a card that is in neither list changes neither list and runs  *)
(* to its end (it reaches save_state).                                     *)
(***************************************************************************)
C9_DeleteRemovesOnlyThatCard ==
    [][last'.op \in {"delete", "delete_removed"} =>
        /\ tasks' = Without(tasks, last'.card)
        /\ completed' = Without(completed, last'.card)
        /\ text' = text
        /\ last'.card \notin Alive => (tasks' = tasks /\ completed' = completed)
        /\ last'.saved # "none"
    ]_vars

\* delete has run on a card that was in neither list, with cards in both.
C9_Witness ==
    /\ last.op = "delete_removed"
    /\ last.card \in destroyed
    /\ tasks # <<>>
    /\ completed # <<>>

(***************************************************************************)
(* C10.  While a drag of card c is in progress (on_drag_start found c in   *)
(* app.tasks, on_drag_release has not run, c's widget exists), c's         *)
(* _drag_index is an index of app.tasks and app.tasks[_drag_index] is c,   *)
(* whatever other handlers run in between.                                 *)
(***************************************************************************)
C10_DragIndexTracksCard ==
    (running /\ pressed # NoCard /\ pressed \notin destroyed
        /\ drag_index[pressed] # None) =>
            /\ drag_index[pressed] < Len(tasks)
            /\ tasks[drag_index[pressed] + 1] = pressed

====
